---------------------------- MODULE Spec2Model ----------------------------
(***************************************************************************)
(* A model of avibot's data manager:                                       *)
(*   - DatabaseManager (core/data_manager/db.py): the pool handle, the     *)
(*     listener connection, the query/transaction helpers with their       *)
(*     recreate-and-retry handler, and the listener registry;              *)
(*   - the SQLType family (core/data_manager/sqltypes.py): construction,   *)
(*     to_sql, to_dict / from_dict and __eq__ / __ne__.                    *)
(*                                                                         *)
(* DatabaseManager runs on one asyncio event loop.  A coroutine runs       *)
(* without interruption from one await to the next, so every action below  *)
(* is the code between two suspension points of one task: it delivers the  *)
(* outcome of the awaited library call and runs the coroutine on to its    *)
(* next await (or to its end).  The outcome of an asyncpg call is an       *)
(* input: it succeeds, raises InterfaceError, raises another error, or the *)
(* task is cancelled while it waits.                                       *)
(***************************************************************************)
EXTENDS Integers, Sequences, FiniteSets, TLC

\* ------------------------------------------------------------------ bounds
\* Pool handles asyncpg.create_pool may hand out in one behaviour.
MaxPools == 2
\* Nesting depth of the recursive retry in execute_query/execute_transaction.
MaxDepth == 2
\* Largest precision the SQLType scenario passes beyond the limit of 1000.
MaxOver == 1

\* The tasks of the event loop that call into the manager: the bot's own
\* task, which starts the manager and shuts it down (bot.py:52-70) and may call
\* any method, and a second task that runs queries beside it.
Owner == "t1"
Tasks == {Owner, "t2"}

\* Argument tuples (*listeners) of add_conn_listeners / remove_listeners, each
\* listener a (channel, callback) pair.
ListenerArgs == {<<>>, <<<<"ch1", "cb1">>>>, <<<<"ch1", "cb1">>, <<"ch1", "cb1">>>>,
                 <<<<"ch1", "cb1">>, <<"ch2", "cb1">>>>}

VARIABLES
    pool,           \* self.pool: 0 is None, else the handle of a pool
    listener_conn,  \* self.listener_conn: NoConn is None, else <<pool, index>>
    listeners,      \* self.listeners
    npools,         \* number of pools asyncpg has created so far
    poolState,      \* asyncpg's state of each pool
    holders,        \* connections checked out: [conn, by], by a task or "listener"
    registered,     \* asyncpg's callbacks: the <<conn, pair>> of each add_listener
    frames,         \* per task: the call in progress and its position
    last,           \* history: the call that ended in the last step, and how
    everListener,   \* history: connections ever assigned to self.listener_conn
    closeReleased,  \* history: connections close() has released or terminated
    relLog,         \* history: each release of a listener connection, in order
    sx, sy, sd, sr, spc, \* the SQLType scenario (SpecTypes): x, y, d, r, step
    scall,          \* the constructor call that made x
    sq              \* x.to_sql()

dbvars == <<pool, listener_conn, listeners, npools, poolState, holders,
            registered, frames, last, everListener, closeReleased, relLog>>
tyvars == <<sx, sy, sd, sr, spc, scall, sq>>
vars == <<dbvars, tyvars>>

\* ------------------------------------------------------------ DatabaseManager

NoConn == <<0, 0>>

\* db.py:42 assigns the typing alias itself, not a list.
ListAlias == "typing.List[PoolConnectionProxy]"

\* Outcomes of an awaited asyncpg call.
\* "Error" is any exception that is neither of the other two.
Failures == {"InterfaceError", "Error", "CancelledError"}
Outcomes == {"ok"} \cup Failures

NoFrame ==
    [op |-> "none", pc |-> "idle", depth |-> 0, apool |-> 0, conn |-> NoConn,
     pending |-> "none", result |-> "none", args |-> <<>>,
     recs |-> 0, ev |-> <<>>, failPools |-> 0, pools0 |-> 0, overlap |-> FALSE,
     steps |-> <<>>]

NoCall == [op |-> "none", result |-> "none", args |-> <<>>, pools0 |-> 0,
           overlap |-> FALSE, steps |-> <<>>]

\* A task may begin a call when it is in none.
Ready(t) == frames[t].pc = "idle"

\* The frame of a call that has ended with result r.
Done(f, r) == [f EXCEPT !.pc = "done", !.result = r, !.conn = NoConn,
                         !.pending = "none", !.apool = 0]

\* Indices of pool p's connections that are checked out.
Used(p) == {h.conn[2] : h \in {g \in holders : g.conn[1] = p}}

\* Pool.acquire hands out a connection of the pool that is not checked out.
FreeConn(p) ==
    <<p, CHOOSE k \in 1..(Cardinality(Tasks) + 2) :
            k \notin Used(p) /\ \A j \in 1..(k - 1) : j \in Used(p)>>

\* Task t has replaced self.pool or self.listener_conn: note it in the frames
\* of the other tasks' start/recreate_pool calls (history, read by no action).
NoteWrite(t, fs) ==
    [u \in Tasks |->
        IF u # t /\ fs[u].op \in {"start", "recreate_pool"}
        THEN [fs[u] EXCEPT !.overlap = TRUE] ELSE fs[u]]

\* Task t's coroutine has run to frame f: its next await, or the end of the
\* call, which leaves the task free for its next call.
Lands(t, f) ==
    [frames EXCEPT ![t] = IF f.pc = "done" THEN NoFrame ELSE f]

\* What the step leaves in last: the call that ended in it, if one did.
Ends(f) ==
    IF f.pc = "done"
    THEN [op |-> f.op, result |-> f.result, args |-> f.args,
          pools0 |-> f.pools0, overlap |-> f.overlap, steps |-> f.steps]
    ELSE NoCall


\* A failure may be an InterfaceError only while the retry may still nest
\* (the bound of the model on the recursion of db.py:83 and db.py:96).
Allowed(f, o) == o = "InterfaceError" => f.depth < MaxDepth

\* asyncpg.create_pool is invoked and awaited (db.py:47, db.py:55).
CreatePoolCall(f) == [f EXCEPT !.pc = "create_pool"]

\* start(): log, then await create_pool.
Start(t) ==
    LET g == CreatePoolCall([NoFrame EXCEPT !.op = "start", !.pools0 = npools]) IN
    /\ Ready(t)
    /\ frames' = Lands(t, g) /\ last' = Ends(g)
    /\ UNCHANGED tyvars
    /\ UNCHANGED <<pool, listener_conn, listeners, npools, poolState, holders,
                   registered, everListener, closeReleased, relLog>>

\* recreate_pool() called by a caller: log, then await create_pool.
RecreatePool(t) ==
    LET g == CreatePoolCall([NoFrame EXCEPT !.op = "recreate_pool",
                                            !.pools0 = npools]) IN
    /\ Ready(t)
    /\ frames' = Lands(t, g) /\ last' = Ends(g)
    /\ UNCHANGED tyvars
    /\ UNCHANGED <<pool, listener_conn, listeners, npools, poolState, holders,
                   registered, everListener, closeReleased, relLog>>

\* setup(): "if self.pool:" decides whether the listener is acquired.
SetupAcquiresNoListenerYet(p) == p # 0 /\ listener_conn = NoConn
SetupAcquires(p) == p # 0

\* "async with self.pool.acquire()" of execute_query / execute_transaction:
\* self.pool is read now; None has no acquire (AttributeError, which is no
\* InterfaceError and leaves the call).
Attempt(f) ==
    IF pool = 0 THEN Done(f, "AttributeError")
    ELSE [f EXCEPT !.pc = "acquire", !.apool = pool]

\* create_pool returns: the handle is assigned to self.pool and setup() runs
\* to its await of self.pool.acquire(); or create_pool raises, which ends the
\* call (inside the except clause of a query too: nothing catches it there).
CreatePoolDone(t, o) ==
    LET f == frames[t]
        g == IF o # "ok" THEN Done(f, o)
             ELSE IF SetupAcquires(npools + 1)
             THEN [f EXCEPT !.pc = "setup", !.apool = npools + 1,
                            !.ev = IF f.ev = <<>> THEN <<>>
                                   ELSE Append(f.ev, "pool_assigned")]
             ELSE Done(f, "ok") IN
    /\ f.pc = "create_pool"
    /\ IF o = "ok"
       THEN /\ npools < MaxPools
            /\ npools' = npools + 1
            /\ pool' = npools + 1
            /\ poolState' = [poolState EXCEPT ![npools + 1] = "open"]
            /\ frames' = NoteWrite(t, Lands(t, g))
       ELSE /\ frames' = Lands(t, g)
            /\ UNCHANGED <<pool, npools, poolState>>
    /\ last' = Ends(g)
    /\ UNCHANGED tyvars
    /\ UNCHANGED <<listener_conn, listeners, holders, registered,
                   everListener, closeReleased, relLog>>

\* The connections checked out once c is held as listener connection: the one
\* self.listener_conn named before is not released (db.py:63 only assigns).
AssignListenerReleasingOld(c) ==
    {h \in holders : h.conn # listener_conn} \cup {[conn |-> c, by |-> "listener"]}
AssignListenerNotCheckedOut(c) == holders
AssignListener(c) == holders \cup {[conn |-> c, by |-> "listener"]}

\* recreate_pool has returned: start/recreate_pool end; the except clause of
\* a query goes on to "return await self.execute_query(...)" (db.py:83, 96).
AfterSetup(f) ==
    IF f.op \in {"start", "recreate_pool"} THEN Done(f, "ok")
    ELSE Attempt([f EXCEPT !.depth = f.depth + 1,
                           !.ev = f.ev \o <<"listener_acquired", "retry">>])

\* setup()'s acquire returns: the connection becomes self.listener_conn.
SetupDone(t, o) ==
    LET f == frames[t]
        c == FreeConn(f.apool)
        g == IF o = "ok" THEN AfterSetup(f) ELSE Done(f, o) IN
    /\ f.pc = "setup"
    /\ IF o = "ok"
       THEN /\ poolState[f.apool] = "open"
            /\ listener_conn' = c
            /\ holders' = AssignListener(c)
            /\ everListener' = everListener \cup {c}
            /\ frames' = NoteWrite(t, Lands(t, g))
       ELSE /\ frames' = Lands(t, g)
            /\ UNCHANGED <<listener_conn, holders, everListener>>
    /\ last' = Ends(g)
    /\ UNCHANGED tyvars
    /\ UNCHANGED <<pool, listeners, npools, poolState, registered, closeReleased, relLog>>

\* execute_query(query, *args): the first attempt.
ExecuteQuery(t) ==
    LET g == Attempt([NoFrame EXCEPT !.op = "execute_query"]) IN
    /\ Ready(t)
    /\ frames' = Lands(t, g) /\ last' = Ends(g)
    /\ UNCHANGED tyvars
    /\ UNCHANGED <<pool, listener_conn, listeners, npools, poolState, holders,
                   registered, everListener, closeReleased, relLog>>

\* execute_transaction(query, *args): the first attempt.
ExecuteTransaction(t) ==
    LET g == Attempt([NoFrame EXCEPT !.op = "execute_transaction"]) IN
    /\ Ready(t)
    /\ frames' = Lands(t, g) /\ last' = Ends(g)
    /\ UNCHANGED tyvars
    /\ UNCHANGED <<pool, listener_conn, listeners, npools, poolState, holders,
                   registered, everListener, closeReleased, relLog>>

\* "except asyncpg.exceptions.InterfaceError": logger.error, then
\* recreate_pool() up to its await of create_pool (db.py:80-82, 93-95).
OnInterfaceErrorRetryOnly(f) ==
    Attempt([f EXCEPT !.depth = f.depth + 1, !.conn = NoConn, !.pending = "none",
                      !.ev = <<"fail", "log", "retry">>, !.failPools = npools])
OnInterfaceError(f) ==
    CreatePoolCall([f EXCEPT !.recs = f.recs + 1, !.conn = NoConn,
                             !.pending = "none", !.apool = 0,
                             !.ev = <<"fail", "log", "recreate_pool">>,
                             !.failPools = npools])

\* What an exception that leaves the try block does: the handler for an
\* InterfaceError, the end of the call for any other.
RaiseRetryingAll(f, e) ==
    IF e \in {"InterfaceError", "Error"} THEN OnInterfaceError(f) ELSE Done(f, e)
Raise(f, e) ==
    IF e = "InterfaceError" THEN OnInterfaceError(f) ELSE Done(f, e)

\* The acquire of "async with self.pool.acquire() as conn" returns.
AcquireDone(t, o) ==
    LET f == frames[t]
        c == FreeConn(f.apool)
        g == IF o = "ok" THEN [f EXCEPT !.pc = "prepare", !.conn = c]
             ELSE Raise(f, o) IN
    /\ f.pc = "acquire"
    /\ Allowed(f, o)
    /\ IF o = "ok"
       THEN /\ poolState[f.apool] = "open"
            /\ holders' = holders \cup {[conn |-> c, by |-> t]}
       ELSE UNCHANGED holders
    /\ frames' = Lands(t, g) /\ last' = Ends(g)
    /\ UNCHANGED tyvars
    /\ UNCHANGED <<pool, listener_conn, listeners, npools, poolState,
                   registered, everListener, closeReleased, relLog>>

\* The body of the "async with" is left with outcome o (rows returned or an
\* exception): __aexit__ awaits the release of conn before o takes effect.
ExitBodyLeakOnCancel(f, o) ==
    IF o = "CancelledError" THEN Done(f, o)
    ELSE [f EXCEPT !.pc = "release", !.pending = o]
ExitBody(f, o) == [f EXCEPT !.pc = "release", !.pending = o]

\* "sttmnt = await conn.prepare(query)" returns.
PrepareDone(t, o) ==
    LET f == frames[t]
        g == IF o = "ok"
             THEN [f EXCEPT !.pc = IF f.op = "execute_query" THEN "fetch"
                                   ELSE "tx_enter"]
             ELSE ExitBody(f, o) IN
    /\ f.pc = "prepare"
    /\ Allowed(f, o)
    /\ frames' = Lands(t, g) /\ last' = Ends(g)
    /\ UNCHANGED tyvars
    /\ UNCHANGED <<pool, listener_conn, listeners, npools, poolState, holders,
                   registered, everListener, closeReleased, relLog>>

\* "return await sttmnt.fetch(*args, **kwargs)" returns.
FetchDone(t, o) ==
    LET f == frames[t]
        g == ExitBody(f, IF o = "ok" THEN "rows" ELSE o) IN
    /\ f.pc = "fetch"
    /\ Allowed(f, o)
    /\ frames' = Lands(t, g) /\ last' = Ends(g)
    /\ UNCHANGED tyvars
    /\ UNCHANGED <<pool, listener_conn, listeners, npools, poolState, holders,
                   registered, everListener, closeReleased, relLog>>

\* "async with conn.transaction()" is entered, and the list comprehension over
\* sttmnt.cursor(...) runs without an await: it yields the rows or raises
\* (a TypeError where the cursor is not iterable by a plain for).
TxEnterDone(t, o, it) ==
    LET f == frames[t]
        g == IF o = "ok" THEN [f EXCEPT !.pc = "tx_exit", !.pending = it]
             ELSE ExitBody(f, o) IN
    /\ f.pc = "tx_enter"
    /\ Allowed(f, o)
    /\ frames' = Lands(t, g) /\ last' = Ends(g)
    /\ UNCHANGED tyvars
    /\ UNCHANGED <<pool, listener_conn, listeners, npools, poolState, holders,
                   registered, everListener, closeReleased, relLog>>

\* The transaction's __aexit__ (commit after rows, rollback after an
\* exception) returns; an exception of its own replaces the body's outcome.
TxExitDone(t, o) ==
    LET f == frames[t]
        g == ExitBody(f, IF o = "ok" THEN f.pending ELSE o) IN
    /\ f.pc = "tx_exit"
    /\ Allowed(f, o)
    /\ frames' = Lands(t, g) /\ last' = Ends(g)
    /\ UNCHANGED tyvars
    /\ UNCHANGED <<pool, listener_conn, listeners, npools, poolState, holders,
                   registered, everListener, closeReleased, relLog>>

\* The release of __aexit__ returns (asyncpg shields it from cancellation: a
\* task cancelled meanwhile gets CancelledError once the release is over);
\* then the outcome takes effect: rows are returned, an exception is raised.
ReleaseDone(t, cancelled) ==
    LET f == frames[t]
        o == IF cancelled THEN "CancelledError" ELSE f.pending
        g == IF o = "rows" THEN Done(f, "rows") ELSE Raise(f, o) IN
    /\ f.pc = "release"
    /\ holders' = {h \in holders : h.conn # f.conn}
    /\ frames' = Lands(t, g) /\ last' = Ends(g)
    /\ UNCHANGED tyvars
    /\ UNCHANGED <<pool, listener_conn, listeners, npools, poolState,
                   registered, everListener, closeReleased, relLog>>

\* close(): "if self.pool:".
CloseGuardAlways == TRUE
CloseGuard == pool # 0

\* The calls close() makes on a pool, in order, each with the state the pool
\* is in when it is called: <<method, pool, state>>.
Step(f, method, p, ps) ==
    [f EXCEPT !.steps = Append(f.steps, <<method, p, ps[p]>>)]

\* Pool.close() of asyncpg is invoked on self.pool as it is now: a closed pool
\* returns at once, and close() goes on to self.pool.terminate(), which does
\* nothing on a closed pool; otherwise the pool stops handing out connections
\* and the caller waits until all of them are released.
PoolCloseCall(f) ==
    IF pool = 0 THEN Done(f, "AttributeError")
    ELSE IF poolState[pool] = "closed"
    THEN Done(Step(Step(f, "close", pool, poolState),
                   "terminate", pool, poolState), "ok")
    ELSE [Step(f, "close", pool, poolState)
             EXCEPT !.pc = "close_wait", !.apool = pool, !.conn = NoConn]

Closing(ps) ==
    IF pool # 0 /\ ps[pool] = "open" THEN [ps EXCEPT ![pool] = "closing"] ELSE ps

\* Pool.release on a connection that was released already (its proxy is
\* detached) returns at once.
AlreadyReleasedNever(c) == FALSE
AlreadyReleased(c) == c \in closeReleased

\* close(): up to its first suspension.  Pool.release raises InterfaceError
\* for a connection of another pool, returns at once for a connection
\* already released, raises InterfaceError on a closed pool.
Close(t) ==
    LET f == [NoFrame EXCEPT !.op = "close"]
        r == Step(f, "release", pool, poolState)
        foreign == listener_conn # NoConn /\ listener_conn[1] # pool
        direct == listener_conn = NoConn
        noop == ~direct /\ ~foreign /\ AlreadyReleased(listener_conn)
        g == IF ~CloseGuard THEN Done(f, "ok")
             ELSE IF direct THEN PoolCloseCall(f)
             ELSE IF foreign THEN Done(r, "InterfaceError")
             ELSE IF noop THEN PoolCloseCall(r)
             ELSE IF poolState[pool] = "closed" THEN Done(r, "InterfaceError")
             ELSE [r EXCEPT !.pc = "close_release", !.apool = pool,
                            !.conn = listener_conn] IN
    /\ Ready(t)
    /\ poolState' = IF CloseGuard /\ (direct \/ noop) THEN Closing(poolState)
                    ELSE poolState
    /\ frames' = Lands(t, g) /\ last' = Ends(g)
    /\ UNCHANGED tyvars
    /\ UNCHANGED <<pool, listener_conn, listeners, npools, holders,
                   registered, everListener, closeReleased, relLog>>

\* "await self.pool.release(self.listener_conn)" returns (shielded, as in
\* ReleaseDone), and close() goes on to "await self.pool.close()".
CloseReleaseDone(t, cancelled) ==
    LET f == frames[t]
        g == IF cancelled THEN Done(f, "CancelledError") ELSE PoolCloseCall(f) IN
    /\ f.pc = "close_release"
    /\ holders' = {h \in holders : h.conn # f.conn}
    /\ closeReleased' = closeReleased \cup {f.conn}
    /\ relLog' = Append(relLog, [conn |-> f.conn, to |-> poolState[f.apool]])
    /\ poolState' = IF cancelled THEN poolState ELSE Closing(poolState)
    /\ frames' = Lands(t, g) /\ last' = Ends(g)
    /\ UNCHANGED tyvars
    /\ UNCHANGED <<pool, listener_conn, listeners, npools, registered,
                   everListener>>

\* Pool.terminate(): nothing on a closed pool; else the pool is closed and
\* its connections are terminated, which takes them from their holders.
Terminate(ps, p) == [ps EXCEPT ![p] = "closed"]

Dropped(ps, p) ==
    IF ps[p] = "closed" THEN {} ELSE {h \in holders : h.conn[1] = p}

\* "await self.pool.close()" returns once every connection of that pool is
\* released, and "self.pool.terminate()" runs on self.pool as it is then; a
\* cancelled Pool.close terminates its pool and raises.
CloseWaitDone(t, cancelled) ==
    LET f == frames[t]
        closed == [poolState EXCEPT ![f.apool] = "closed"]
        g == IF cancelled THEN Done(f, "CancelledError")
             ELSE Done(Step(f, "terminate", pool, closed), "ok")
        gone == IF cancelled THEN Dropped(poolState, f.apool)
                ELSE Dropped(closed, pool) IN
    /\ f.pc = "close_wait"
    /\ IF cancelled
       THEN poolState' = Terminate(poolState, f.apool)
       ELSE /\ Used(f.apool) = {}
            /\ poolState' = Terminate(closed, pool)
    /\ holders' = holders \ gone
    /\ closeReleased' =
           closeReleased \cup {h.conn : h \in {x \in gone : x.by = "listener"}}
    /\ frames' = Lands(t, g) /\ last' = Ends(g)
    /\ UNCHANGED tyvars
    /\ UNCHANGED <<pool, listener_conn, listeners, npools, registered,
                   everListener, relLog>>

\* add_conn_listeners(*args).  self.listeners is the typing alias and no
\* statement assigns it again.  "lst not in self.listeners" raises TypeError
\* on interpreters whose alias is not iterable and is true on the others, and
\* "self.listeners.extend(add_listeners)" is then list.extend called without
\* its argument: TypeError either way.  conn.add_listener is never reached.
AddConnListeners(t, args) ==
    LET g == Done([NoFrame EXCEPT !.op = "add_conn_listeners", !.args = args],
                  "TypeError") IN
    /\ Ready(t)
    /\ listeners = ListAlias
    /\ frames' = Lands(t, g) /\ last' = Ends(g)
    /\ UNCHANGED tyvars
    /\ UNCHANGED <<pool, listener_conn, listeners, npools, poolState, holders,
                   registered, everListener, closeReleased, relLog>>

\* remove_listeners(*args).  "lst in self.listeners" raises TypeError on the
\* interpreters above (inRaises), and is false on the others: nothing is to
\* remove then, and the loop body is never reached.
RemoveListeners(t, args, inRaises) ==
    LET g == Done([NoFrame EXCEPT !.op = "remove_listeners", !.args = args],
                  IF args # <<>> /\ inRaises THEN "TypeError" ELSE "ok") IN
    /\ Ready(t)
    /\ listeners = ListAlias
    /\ frames' = Lands(t, g) /\ last' = Ends(g)
    /\ UNCHANGED tyvars
    /\ UNCHANGED <<pool, listener_conn, listeners, npools, poolState, holders,
                   registered, everListener, closeReleased, relLog>>

\* ------------------------------------------------------------------ SQLType
\* Python values: None, bool, int, str, and instances of the SQLType classes
\* (cls: the class, dict: the instance's __dict__).
PyNone == [k |-> "none"]
PyBool(b) == [k |-> "bool", b |-> b]
PyInt(n) == [k |-> "int", n |-> n]
PyStr(s) == [k |-> "str", s |-> s]
Obj(cls, d) == [k |-> "obj", cls |-> cls, dict |-> d]
SchemaError == [k |-> "raise", exc |-> "SchemaError"]
TypeError == [k |-> "raise", exc |-> "TypeError"]
Unset == [k |-> "unset"]
EmptyDict == <<>>

\* The classes of sqltypes.py; each derives from SQLType alone.
SQLClasses == {"BooleanSQL", "DateSQL", "DatetimeSQL", "DoubleSQL", "FloatSQL",
               "IntegerSQL", "IntervalSQL", "DecimalSQL", "StringSQL",
               "TimeSQL", "JSONSQL", "ArraySQL"}
Bases(cls) == {cls, "SQLType", "object"}

\* isinstance(v, cls)
IsInstance(v, cls) == v.k = "obj" /\ cls \in Bases(v.cls)

\* Truth value of a Python value.
Truthy(v) ==
    CASE v.k = "none" -> FALSE
      [] v.k = "bool" -> v.b
      [] v.k = "int" -> v.n # 0
      [] v.k = "str" -> v.s # ""
      [] OTHER -> TRUE

\* Classes without __init__: BooleanSQL(), DateSQL(), DoubleSQL(), FloatSQL(),
\* StringSQL(), JSONSQL().
PlainSQL(cls) == Obj(cls, EmptyDict)

DatetimeSQL(timezone) == Obj("DatetimeSQL", [timezone |-> timezone])

TimeSQL(timezone) == Obj("TimeSQL", [timezone |-> timezone])

IntegerSQLUnchecked(big, small, auto_increment) ==
    Obj("IntegerSQL", [big |-> big, small |-> small,
                       auto_increment |-> auto_increment])

IntegerSQL(big, small, auto_increment) ==
    IF Truthy(big) /\ Truthy(small) THEN SchemaError
    ELSE Obj("IntegerSQL", [big |-> big, small |-> small,
                            auto_increment |-> auto_increment])

valid_fields ==
    {"YEAR", "MONTH", "DAY", "HOUR", "MINUTE", "SECOND", "YEAR TO MONTH",
     "DAY TO HOUR", "DAY TO MINUTE", "DAY TO SECOND", "HOUR TO MINUTE",
     "HOUR TO SECOND", "MINUTE TO SECOND"}

\* str.upper() on the strings the scenario passes.
Upper(s) ==
    CASE s = "day to hour" -> "DAY TO HOUR"
      [] s = "Year" -> "YEAR"
      [] s = "bogus" -> "BOGUS"
      [] OTHER -> s

IntervalSQL(field) ==
    IF Truthy(field)
    THEN IF Upper(field.s) \notin valid_fields THEN SchemaError
         ELSE Obj("IntervalSQL", [field |-> PyStr(Upper(field.s))])
    ELSE Obj("IntervalSQL", [field |-> PyNone])

DecimalSQLExclusive(precision, scale) ==
    IF precision # PyNone /\ (precision.n <= 0 \/ precision.n >= 1000)
    THEN SchemaError
    ELSE Obj("DecimalSQL",
             [precision |-> precision,
              scale |-> IF precision # PyNone /\ scale = PyNone THEN PyInt(0)
                        ELSE scale])

DecimalSQL(precision, scale) ==
    IF precision # PyNone /\ (precision.n < 0 \/ precision.n > 1000)
    THEN SchemaError
    ELSE Obj("DecimalSQL",
             [precision |-> precision,
              scale |-> IF precision # PyNone /\ scale = PyNone THEN PyInt(0)
                        ELSE scale])

\* SQLType declares the abstract property "python"; every subclass assigns
\* it except ArraySQL, which therefore stays abstract: object.__new__ raises
\* TypeError for it before __init__ runs.
IsAbstract(cls) == cls = "ArraySQL"

ArraySQL(inner_type, size) ==
    IF IsAbstract("ArraySQL") THEN TypeError
    ELSE IF ~IsInstance(inner_type, "SQLType") THEN SchemaError
    ELSE Obj("ArraySQL", [type |-> inner_type, size |-> size])

\* str() of a value inside an f-string.
Format(v) ==
    CASE v.k = "none" -> "None"
      [] v.k = "bool" -> (IF v.b THEN "True" ELSE "False")
      [] v.k = "int" -> ToString(v.n)
      [] OTHER -> v.s

\* to_sql of each class.
RECURSIVE ToSql(_)
ToSql(x) ==
    CASE x.cls = "BooleanSQL" -> "BOOLEAN"
      [] x.cls = "DateSQL" -> "DATE"
      [] x.cls = "DatetimeSQL" ->
            IF Truthy(x.dict.timezone) THEN "TIMESTAMP WITH TIMEZONE"
            ELSE "TIMESTAMP"
      [] x.cls = "DoubleSQL" -> "REAL"
      [] x.cls = "FloatSQL" -> "FLOAT"
      [] x.cls = "IntegerSQL" ->
            IF Truthy(x.dict.auto_increment)
            THEN IF Truthy(x.dict.big) THEN "BIGSERIAL"
                 ELSE IF Truthy(x.dict.small) THEN "SMALLSERIAL"
                 ELSE "SERIAL"
            ELSE IF Truthy(x.dict.big) THEN "BIGINT"
                 ELSE IF Truthy(x.dict.small) THEN "SMALLINT"
                 ELSE "INTEGER"
      [] x.cls = "IntervalSQL" ->
            IF Truthy(x.dict.field) THEN "INTERVAL " \o x.dict.field.s
            ELSE "INTERVAL"
      [] x.cls = "DecimalSQL" ->
            IF x.dict.precision # PyNone
            THEN "NUMERIC(" \o Format(x.dict.precision) \o ", "
                            \o Format(x.dict.scale) \o ")"
            ELSE "NUMERIC"
      [] x.cls = "StringSQL" -> "TEXT"
      [] x.cls = "TimeSQL" ->
            IF Truthy(x.dict.timezone) THEN "TIME WITH TIME ZONE" ELSE "TIME"
      [] x.cls = "JSONSQL" -> "JSONB"
      [] x.cls = "ArraySQL" ->
            IF Truthy(x.dict.size)
            THEN ToSql(x.dict.type) \o "[" \o Format(x.dict.size) \o "]"
            ELSE ToSql(x.dict.type) \o "[]"

\* to_dict: a copy of __dict__ with "__meta__" set to the qualified class name.
ToDict(x) ==
    ("__meta__" :> PyStr("avibot.core.data_manager.sqltypes." \o x.cls)) @@ x.dict

\* from_dict: cls.__new__(cls), then __dict__.update(data).
FromDict(cls, data) ==
    IF IsAbstract(cls) THEN TypeError ELSE Obj(cls, data @@ EmptyDict)

\* __eq__: isinstance(other, self.__class__) and self.__dict__ == other.__dict__.
\* Two dicts are equal when they have the same keys and equal values; the
\* values are compared by ==, which is __eq__ again for an inner SQLType and
\* compares bool and int by number.
RECURSIVE EqNoClass(_, _), Eq(_, _), PyEq(_, _)
EqNoClass(self, other) ==
    /\ other.k = "obj"
    /\ DOMAIN self.dict = DOMAIN other.dict
    /\ \A a \in DOMAIN self.dict : PyEq(self.dict[a], other.dict[a])
Eq(self, other) ==
    /\ IsInstance(other, self.cls)
    /\ DOMAIN self.dict = DOMAIN other.dict
    /\ \A a \in DOMAIN self.dict : PyEq(self.dict[a], other.dict[a])
PyEq(v, w) ==
    CASE v.k = "obj" -> Eq(v, w)
      [] w.k = "obj" -> Eq(w, v)
      [] v.k \in {"bool", "int"} /\ w.k \in {"bool", "int"} ->
            (IF v.k = "bool" THEN (IF v.b THEN 1 ELSE 0) ELSE v.n)
          = (IF w.k = "bool" THEN (IF w.b THEN 1 ELSE 0) ELSE w.n)
      [] OTHER -> v = w

\* __ne__: not self.__eq__(other).
Ne(self, other) == ~Eq(self, other)


\* ---------------------------------------------------------- the scenarios
\* Arguments the SQLType scenario passes to the constructors.
Bools == {PyBool(FALSE), PyBool(TRUE)}
FieldArgs == {PyNone, PyStr(""), PyStr("day to hour"), PyStr("DAY TO HOUR"),
              PyStr("Year"), PyStr("bogus")}
PrecisionArgs ==
    {PyNone} \cup {PyInt(n) : n \in {-1, 0, 1, 10, 999, 1000}}
             \cup {PyInt(1000 + n) : n \in 1..MaxOver}
ScaleArgs == {PyNone, PyInt(0), PyInt(2)}
SizeArgs == {PyNone, PyInt(0), PyInt(5)}
NotSQLTypes == {PyNone, PyStr("TEXT"), PyInt(1)}

\* A constructor call: the class and the arguments, defaults filled in.
Call(cls, args) == [cls |-> cls, args |-> args]

\* What a constructor call yields: the instance, or the exception raised.
Construct(c) ==
    CASE c.cls = "DatetimeSQL" -> DatetimeSQL(c.args[1])
      [] c.cls = "TimeSQL" -> TimeSQL(c.args[1])
      [] c.cls = "IntegerSQL" -> IntegerSQL(c.args[1], c.args[2], c.args[3])
      [] c.cls = "IntervalSQL" -> IntervalSQL(c.args[1])
      [] c.cls = "DecimalSQL" -> DecimalSQL(c.args[1], c.args[2])
      [] c.cls = "ArraySQL" -> ArraySQL(c.args[1], c.args[2])
      [] OTHER -> PlainSQL(c.cls)

\* The constructor calls without an inner type.
BaseCalls ==
    {Call(c, <<>>) : c \in {"BooleanSQL", "DateSQL", "DoubleSQL", "FloatSQL",
                            "StringSQL", "JSONSQL"}}
    \cup {Call("DatetimeSQL", <<tz>>) : tz \in Bools}
    \cup {Call("TimeSQL", <<tz>>) : tz \in Bools}
    \cup {Call("IntegerSQL", <<b, sm, ai>>) : b \in Bools, sm \in Bools, ai \in Bools}
    \cup {Call("IntervalSQL", <<fa>>) : fa \in FieldArgs}
    \cup {Call("DecimalSQL", <<pr, sc>>) : pr \in PrecisionArgs, sc \in ScaleArgs}

\* Inner types the scenario passes to ArraySQL: instances, and values that
\* are no SQLType.
ArrayInners ==
    {v \in {Construct(c) : c \in BaseCalls} :
        /\ v.k = "obj"
        /\ v.cls \in {"StringSQL", "DoubleSQL"}
               \/ (v.cls = "IntegerSQL"
                      /\ ~Truthy(v.dict.auto_increment))}
    \cup NotSQLTypes

Calls ==
    BaseCalls
    \cup {Call("ArraySQL", <<i, sz>>) : i \in ArrayInners, sz \in SizeArgs}

\* x = <constructor call>
ConstructX ==
    /\ \E c \in Calls : scall' = c /\ sx' = Construct(c)
    /\ sd' = Unset /\ sr' = Unset /\ sq' = Unset /\ spc' = "constructed"
    /\ UNCHANGED <<sy, dbvars>>

\* y = <constructor call>
ConstructY ==
    /\ \E c \in Calls : sy' = Construct(c)
    /\ UNCHANGED <<sx, sd, sr, spc, scall, sq, dbvars>>

\* q = x.to_sql()
CallToSql ==
    /\ sx.k = "obj"
    /\ sq' = PyStr(ToSql(sx)) /\ spc' = "to_sql"
    /\ UNCHANGED <<sx, sy, sd, sr, scall, dbvars>>

\* d = x.to_dict()
CallToDict ==
    /\ sx.k = "obj"
    /\ sd' = ToDict(sx) /\ sr' = Unset /\ spc' = "to_dict"
    /\ UNCHANGED <<sx, sy, scall, sq, dbvars>>

\* r = type(x).from_dict(d)
CallFromDict ==
    /\ sd # Unset
    /\ sr' = FromDict(sx.cls, sd) /\ spc' = "from_dict"
    /\ UNCHANGED <<sx, sy, sd, scall, sq, dbvars>>

DbInit ==
    /\ pool = 0
    /\ listener_conn = NoConn
    /\ listeners = ListAlias
    /\ npools = 0
    /\ poolState = [p \in 1..MaxPools |-> "unborn"]
    /\ holders = {}
    /\ registered = <<>>
    /\ frames = [t \in Tasks |-> NoFrame]
    /\ last = NoCall
    /\ everListener = {}
    /\ closeReleased = {}
    /\ relLog = <<>>

TypesInit ==
    /\ sx = Unset /\ sy = Unset /\ sd = Unset /\ sr = Unset /\ spc = "none"
    /\ scall = Unset /\ sq = Unset

\* DatabaseManager.__init__, and nothing constructed in the SQLType scenario.
Init == DbInit /\ TypesInit

\* The calls on a DatabaseManager and the steps of the calls in progress.
Next ==
    \E t \in Tasks :
        \/ t = Owner /\ Start(t)
        \/ t = Owner /\ RecreatePool(t)
        \/ \E o \in Outcomes : CreatePoolDone(t, o)
        \/ \E o \in Outcomes : SetupDone(t, o)
        \/ ExecuteQuery(t)
        \/ t = Owner /\ ExecuteTransaction(t)
        \/ \E o \in Outcomes : AcquireDone(t, o)
        \/ \E o \in Outcomes : PrepareDone(t, o)
        \/ \E o \in Outcomes : FetchDone(t, o)
        \/ \E o \in Outcomes, it \in {"rows", "Error"} : TxEnterDone(t, o, it)
        \/ \E o \in Outcomes : TxExitDone(t, o)
        \/ \E c \in BOOLEAN : ReleaseDone(t, c)
        \/ t = Owner /\ Close(t)
        \/ \E c \in BOOLEAN : CloseReleaseDone(t, c)
        \/ \E c \in BOOLEAN : CloseWaitDone(t, c)
        \/ t = Owner /\ \E a \in ListenerArgs : AddConnListeners(t, a)
        \/ t = Owner /\ \E a \in ListenerArgs, r \in BOOLEAN : RemoveListeners(t, a, r)

Spec == Init /\ [][Next]_vars

\* The steps of the SQLType scenario.
NextTypes ==
    \/ ConstructX
    \/ ConstructY
    \/ CallToSql
    \/ CallToDict
    \/ CallFromDict

SpecTypes == Init /\ [][NextTypes]_vars


\* ------------------------------------------------------------------ claims

\* The frames of an attempt of execute_query / execute_transaction.
InAttempt(f) ==
    /\ f.op \in {"execute_query", "execute_transaction"}
    /\ f.pc \in {"acquire", "prepare", "fetch", "tx_enter", "tx_exit", "release"}

\* The frames in which the attempt holds its connection.
InBody(f) ==
    /\ f.op \in {"execute_query", "execute_transaction"}
    /\ f.pc \in {"prepare", "fetch", "tx_enter", "tx_exit", "release"}

\* No call is in progress.
Quiescent == \A t \in Tasks : Ready(t)

\* self.listeners as a list, and what it tracks.
IsList(l) == l # ListAlias
Tracked == IF IsList(listeners) THEN {listeners[i] : i \in DOMAIN listeners} ELSE {}
TrackedCount(p) ==
    IF IsList(listeners)
    THEN Cardinality({i \in DOMAIN listeners : listeners[i] = p}) ELSE 0
RegisteredOn(c) ==
    {registered[i][2] : i \in {j \in DOMAIN registered : registered[j][1] = c}}
RegisteredCount(c, p) ==
    Cardinality({i \in DOMAIN registered : registered[i] = <<c, p>>})

\* C1: a call of execute_query / execute_transaction invokes recreate_pool
\* at most once, whatever the database does.
C1_AtMostOneRecreation == \A t \in Tasks : frames[t].recs <= 1

\* C2: a retry comes after the failure was logged and recreate_pool has run
\* to its end (pool assigned, listener acquired), it is the same method that
\* is called again, and its connection is acquired from a pool created after
\* the failure, never from one that existed when the failure occurred.
C2_RetryAfterRecreateOnNewPool ==
    \A t \in Tasks :
        LET f == frames[t] IN
        InAttempt(f) /\ f.depth > 0 =>
            /\ f.ev = <<"fail", "log", "recreate_pool", "pool_assigned",
                        "listener_acquired", "retry">>
            /\ f.recs = f.depth
            /\ f.apool > f.failPools
            /\ InBody(f) => f.conn[1] = f.apool

C2_Witness ==
    \E t \in Tasks : InBody(frames[t]) /\ frames[t].depth > 0

\* C3: a connection that became the listener connection stays checked out
\* until close() releases it: no other operation returns it to a pool.
C3_ListenerReleasedOnlyByClose ==
    \A c \in everListener :
        c \in closeReleased \/ [conn |-> c, by |-> "listener"] \in holders

C3_Witness ==
    /\ \E c \in everListener : c # listener_conn /\ c \notin closeReleased
    /\ last.op = "execute_query" /\ last.result = "rows"

\* C4: with no call in progress and a listener connection held, the pairs
\* registered on that connection are the tracked ones, each registered once,
\* and the pairs an add_conn_listeners call was just given are among them.
C4_RegisteredEqualsTracked ==
    Quiescent /\ listener_conn # NoConn =>
        /\ RegisteredOn(listener_conn) = Tracked
        /\ \A p \in Tracked : RegisteredCount(listener_conn, p) = 1
        /\ last.op = "add_conn_listeners" =>
               \A i \in DOMAIN last.args :
                   last.args[i] \in RegisteredOn(listener_conn)

\* C5: add_conn_listeners returns with each of its pairs tracked once and,
\* on a listener connection, registered once; remove_listeners of untracked
\* pairs returns without an error.
C5_AddOnceRemoveNoOp ==
    /\ last.op = "add_conn_listeners" =>
          /\ last.result = "ok"
          /\ \A i \in DOMAIN last.args :
                /\ TrackedCount(last.args[i]) = 1
                /\ listener_conn # NoConn =>
                       RegisteredCount(listener_conn, last.args[i]) = 1
    /\ last.op = "remove_listeners" => last.result = "ok"

\* C6: close() on a manager whose pool was never assigned returns without an
\* error and changes nothing: no release, no pool closed or terminated.
C6_CloseNeverOpenedIsNoOp ==
    [][pool = 0 /\ last'.op = "close" =>
          /\ last'.result = "ok"
          /\ last'.steps = <<>>
          /\ UNCHANGED <<pool, listener_conn, listeners, npools, poolState,
                         holders, registered, frames, everListener,
                         closeReleased, relLog>>]_vars

C6_Witness == pool = 0 /\ last.op = "close" /\ last.result = "ok"

C8_OwnConnectionReleased ==
    /\ \A t \in Tasks :
          InBody(frames[t]) =>
              /\ poolState[frames[t].conn[1]] # "closed" =>
                     [conn |-> frames[t].conn, by |-> t] \in holders
              /\ \A u \in Tasks \ {t} :
                    InBody(frames[u]) => frames[u].conn # frames[t].conn
    /\ \A h \in holders :
          h.by \in Tasks => InBody(frames[h.by]) /\ frames[h.by].conn = h.conn

C8_Witness ==
    /\ last.op = "execute_query" /\ last.result = "CancelledError"
    /\ \E t \in Tasks : InBody(frames[t])

\* C9: from_dict of to_dict(x), on x's class, equals x.
C9_DictRoundTrip == sr # Unset => Eq(sr, sx) /\ Eq(sx, sr)

\* C10: == holds exactly between instances of one class whose fields are the
\* same, never between instances of two classes, and != is its negation.
C10_StructuralEquality ==
    sx.k = "obj" /\ sy.k = "obj" =>
        /\ Eq(sx, sy) <=> (sx.cls = sy.cls /\ sx.dict = sy.dict)
        /\ sx.cls # sy.cls => ~Eq(sx, sy) /\ Ne(sx, sy)
        /\ Ne(sx, sy) <=> ~Eq(sx, sy)

C10_Witness == sx = PlainSQL("DoubleSQL") /\ sy = PlainSQL("FloatSQL")

\* C11: IntegerSQL(big, small, auto_increment) raises SchemaError exactly when
\* big and small are both set; otherwise to_sql is BIGSERIAL / SMALLSERIAL /
\* SERIAL with auto_increment and BIGINT / SMALLINT / INTEGER without it.
C11_IntegerFlags ==
    scall # Unset /\ scall.cls = "IntegerSQL" =>
        LET big == scall.args[1].b
            small == scall.args[2].b
            auto == scall.args[3].b IN
        /\ sx = SchemaError <=> (big /\ small)
        /\ ~(big /\ small) => sx.k = "obj"
        /\ sq # Unset =>
              sq.s = CASE auto /\ big -> "BIGSERIAL"
                       [] auto /\ small -> "SMALLSERIAL"
                       [] auto -> "SERIAL"
                       [] big -> "BIGINT"
                       [] small -> "SMALLINT"
                       [] OTHER -> "INTEGER"

C11_Witness ==
    /\ scall = Call("IntegerSQL", <<PyBool(FALSE), PyBool(TRUE), PyBool(TRUE)>>)
    /\ sq = PyStr("SMALLSERIAL")

C17_ArrayToSql ==
    scall # Unset /\ scall.cls = "ArraySQL" =>
        LET inner == scall.args[1]
            size == scall.args[2] IN
        IF IsInstance(inner, "SQLType")
        THEN /\ sx.k = "obj"
             /\ sq # Unset =>
                   sq.s = ToSql(inner) \o (IF size = PyNone THEN "[]"
                                           ELSE "[" \o ToString(size.n) \o "]")
        ELSE sx = SchemaError

\* A pool-handle replacement (start / recreate_pool, or the recreation of a
\* query's handler), and a close, in progress.
Replacing(f) == f.pc \in {"create_pool", "setup"}
ClosingCall(f) == f.pc \in {"close_release", "close_wait"}

\* C13: a close() on a manager with a pool, when it is not cancelled, calls
\* release (if a listener connection is set), then close, then terminate,
\* all three on one and the same pool.
C13_CloseStepsInOrder ==
    last.op = "close" /\ last.result # "CancelledError" /\ pool # 0 =>
        \E p \in 1..npools :
            LET calls == [i \in DOMAIN last.steps |->
                             <<last.steps[i][1], last.steps[i][2]>>] IN
            \/ calls = <<<<"release", p>>, <<"close", p>>, <<"terminate", p>>>>
            \/ calls = <<<<"close", p>>, <<"terminate", p>>>>

\* C14: once a statement of execute_query / execute_transaction has failed
\* with an error that is no InterfaceError, the call ends with that error (or
\* with the cancellation of its task) in its next step: no recreation, no
\* retry, and self.pool and self.listener_conn as they were.
C14_OtherErrorsPropagate ==
    [][\A t \in Tasks :
          /\ frames[t].pc = "release" /\ frames[t].pending = "Error"
          /\ frames'[t] # frames[t]
          => /\ frames'[t] = NoFrame
             /\ last'.op = frames[t].op
             /\ last'.result \in {"Error", "CancelledError"}
             /\ pool' = pool /\ listener_conn' = listener_conn
             /\ npools' = npools]_vars

C14_Witness ==
    /\ pool # 0 /\ listener_conn # NoConn
    /\ \E t \in Tasks :
          frames[t].pc = "release" /\ frames[t].pending = "Error"

\* C15: at no time are two pool-handle replacements, or a replacement and a
\* close, in progress together.
C15_SingleWriter ==
    Cardinality({t \in Tasks : Replacing(frames[t]) \/ ClosingCall(frames[t])}) <= 1

\* C16: the connection an attempt of execute_query / execute_transaction
\* works on is never the listener connection, as long as close() has not
\* given that one back.
C16_ListenerNotUsedForQueries ==
    \A t \in Tasks :
        InBody(frames[t]) /\ listener_conn \notin closeReleased =>
            frames[t].conn # listener_conn

C16_Witness ==
    /\ listener_conn # NoConn /\ listener_conn \notin closeReleased
    /\ \E t \in Tasks :
          InBody(frames[t]) /\ frames[t].conn[1] = listener_conn[1]

\* C18: with no start, recreate_pool or close in progress, a listener
\* connection that is set belongs to the pool self.pool names.
C18_ListenerFromCurrentPool ==
    /\ \A t \in Tasks : ~Replacing(frames[t]) /\ ~ClosingCall(frames[t])
    /\ listener_conn # NoConn
    => listener_conn[1] = pool

=============================================================================
